---- MODULE Spec2Model ----
(***************************************************************************)
(* polyanalyst6api: the DataSet wrapper-guid lifecycle, the                *)
(* retry_on_invalid_guid decorator, the request client's response          *)
(* handling and the lazy row iterator, as a state machine.                 *)
(*                                                                         *)
(* One DataSet object talks to one server through one API object.  The     *)
(* program is single-threaded: between two requests of the client the      *)
(* only thing that can happen is the server dropping a wrapper.            *)
(***************************************************************************)
EXTENDS Integers, Sequences, FiniteSets, TLC

\* ------------------------------------------------------------------ bounds

\* A project holds at most MaxNodes nodes, execute is called with at most
\* MaxArgs nodes, the server starts the execution waves 1..MaxWave, and the
\* polls of one execute are counted up to MaxPolls ("MaxPolls or more").
MaxNodes == 2

MaxArgs == 2

MaxWave == 1

MaxPolls == 2

\* The server issues wrapper guids 1..MaxGuid, each at most once.
MaxGuid == 3

\* Number of rows of the dataset held by the server.
RowCount == 2

\* ------------------------------------------------------- program constants

\* DataSet.__init__: self.guid = '' (the empty handle, never issued).
EmptyGuid == 0

\* The statuses API._handle_response returns the decoded body for.
SuccessStatuses == {200, 202}

\* The message of the server's structured error for an unknown wrapper.
WrapperMsg == "The wrapper with the given GUID is not found on the server"

\* ----------------------------------------------------------------- server

\* columnsInfo of the dataset: column 0 is read from the bulk block, column 1
\* is flagged getTextAlways.
columnsInfo ==
    << [id |-> 0, title |-> "name", getTextAlways |-> FALSE],
       [id |-> 1, title |-> "notes", getTextAlways |-> TRUE] >>

\* The (possibly truncated) value the bulk block holds for a cell.
BulkValue(row, col) == <<"bulk", row, col>>

\* The full text of a cell, as dataset/cell-text returns it.
CellText(row, col) == <<"text", row, col>>

\* dataset/values with rowCount = n: the rows [0, n), rows[i] at index i + 1.
Table(n) ==
    [i \in 1..n |-> [c \in {columnsInfo[k].id : k \in 1..Len(columnsInfo)}
                        |-> BulkValue(i - 1, c)]]

\* dataset/info.
Info == [rowCount |-> RowCount, columnsInfo |-> columnsInfo]

\* A response as the client sees it: the status code and what the body holds.
\*   "json"      a JSON document that is the endpoint's result
\*   "pair"      the JSON list ['Error', message]
\*   "wrapper"   the structured error {error: {title, message}}, message = WrapperMsg
\*   "struct"    the structured error with another message
\*   "notlogged" text containing 'are not logged in'
\*   "limited"   text containing 'operation is limited '
\*   "text"      any other body that is not JSON
Resp(status, body) == [status |-> status, body |-> body]

\* What the server answers when it does not serve the request for a reason
\* other than an unknown wrapper, together with statuses that are neither
\* a success nor an error.
FaultResponses ==
    { Resp(403, "notlogged"), Resp(403, "limited"), Resp(403, "text"),
      Resp(500, "pair"), Resp(500, "struct"), Resp(500, "text"),
      Resp(404, "text"), Resp(201, "json"), Resp(204, "text"), Resp(304, "text") }

\* The server's answer to an unknown wrapper guid.
WrapperGone == Resp(500, "wrapper")

\* ------------------------------------------------------------------ client

NoExc == [cls |-> "none", msg |-> "", url |-> "", status |-> 0]

Exc(cls, msg, url, status) == [cls |-> cls, msg |-> msg, url |-> url, status |-> status]

\* requests.Response.raise_for_status: HTTPError for 4xx and 5xx only.
RaisesForStatus(status) == status >= 400 /\ status < 600

\* API._handle_response for a response that is not a success: the
\* exception raised.  error_msg stays unbound on the paths that assign
\* nothing; the NameError is suppressed and ClientException is raised.
HandleFailure(r, url) ==
    LET client == Exc("ClientException", "An error occurred processing your request", "", 0)
    IN  IF r.status = 403
        THEN IF r.body = "notlogged"
             THEN Exc("APIException", "You are not logged in to PolyAnalyst Server", url, 403)
             ELSE IF r.body = "limited"
             THEN Exc("APIException",
                      "Access to this operation is limited to project owners and administrator",
                      url, 403)
             ELSE client
        ELSE IF r.status = 500
        THEN IF r.body = "pair"
             THEN Exc("APIException", "message", url, 500)
             ELSE client
        ELSE IF RaisesForStatus(r.status)
             THEN Exc("APIException", "HTTPError", url, r.status)
             ELSE client

\* API._handle_response: NoExc when the decoded body is returned.
HandleResponse(r, url) ==
    IF r.status \in SuccessStatuses THEN NoExc ELSE HandleFailure(r, url)

\* The raise of _WrapperNotFound: exceptions.py and the statement raising it
\* are not among the sources; the condition is the one the specification gives.
IsWrapperNotFound(r) == r.status = 500 /\ r.body = "wrapper"

\* No response: the request raised requests.RequestException.
Transport == Resp(0, "transport")

\* API.request: a transport failure becomes ClientException, a response goes
\* through _handle_response.  The api.py at hand has no branch that raises
\* _WrapperNotFound, which project.py imports and catches; that branch is
\* IsWrapperNotFound, placed before the handling of the other responses.
ApiRequest(r, url) ==
    IF r = Transport THEN Exc("ClientException", "RequestException", "", 0)
    ELSE IF IsWrapperNotFound(r) THEN Exc("_WrapperNotFound", WrapperMsg, url, r.status)
    ELSE HandleResponse(r, url)

\* ------------------------------------------------------------------- state

VARIABLES
    valid,      \* server: the wrapper guids that are live
    nextGuid,   \* server: the next guid it issues
    guid,       \* DataSet.guid
    pc,         \* position in retry_on_invalid_guid's wrapper
    op,         \* the wrapped operation being called, with its arguments
    outer,      \* who called the wrapped operation
    log,        \* the requests of the current wrapped call, in order
    resp,       \* the last response received (Transport: none arrived)
    raised,     \* the exception the last request raised (NoExc: none)
    ret,        \* what the last finished call gave its caller
    it,         \* the RowIterator and the locals of iter_rows
    row,        \* the locals of a running __next__
    yielded,    \* the rows the iterator has returned, in order
    rejected,   \* the guids a request was rejected for with WrapperGone
    age,        \* "new": no wrapped call yet; "first": the first one; "later"
    faulted,    \* since iter_rows began a request failed other than by WrapperGone
    raced,      \* since iter_rows began a wrapper was dropped between the
                \* acquire and the retry of one call
    sent,       \* the cell-text requests made for the iterator
    srvNodes,   \* server: the nodes of the project, in the order it lists them
    running,    \* server: the execution waves that are running
    nextWave,   \* server: the next execution wave it starts
    node_list,  \* Project._node_list
    ppc,        \* position in the running Project operation
    pop,        \* the running (or last) Project operation and its locals
    pret,       \* what the last finished Project operation gave its caller
    psent,      \* the endpoints requested by that operation so far
    iters,      \* two RowIterators of the one DataSet, with iter_rows' locals
    rowsOut,    \* the rows each of the two has returned, in order
    frame,      \* the call running for one of the two, and its locals
    lastReq,    \* the last handle-scoped request sent for one of the two
    acquirer,   \* the iterator whose call acquired the stored handle
    acqFailed   \* an acquire call failed since the stored handle was stored

dsVars ==
    <<valid, nextGuid, guid, pc, op, outer, log, resp, raised, ret, it, row,
      yielded, rejected, age, faulted, raced, sent>>

prjVars == <<srvNodes, running, nextWave, node_list, ppc, pop, pret, psent>>

twoVars == <<iters, rowsOut, frame, lastReq, acquirer, acqFailed>>

vars == <<dsVars, prjVars, twoVars>>

Endpoint(name) ==
    CASE name = "get_info" -> "dataset/info"
      [] name = "get_progress" -> "dataset/progress"
      [] name = "_values" -> "dataset/values"
      [] name = "_cell_text" -> "dataset/cell-text"

NoOp == [name |-> "none", row |-> 0, col |-> 0]

Op(name, r, c) == [name |-> name, row |-> r, col |-> c]

NoRet == [kind |-> "none", exc |-> NoExc]

Returned(kind) == [kind |-> kind, exc |-> NoExc]

Thrown(exc) == [kind |-> "exc", exc |-> exc]

\* phase: "none" no iterator, "info" / "values" iter_rows is running,
\* "live" the RowIterator exists.  stopArg is {} for stop=None.
NoIter ==
    [phase |-> "none", start |-> 0, stopArg |-> {}, stop |-> 0, idx |-> 0, rows |-> <<>>]

NoRow == [ci |-> 0, result |-> <<>>]

\* The caller's two iterator variables.
TwoIters == {1, 2}

\* The arguments (start, stop) the two iterators are made with: the
\* non-empty ranges of the dataset.
Ranges == {se \in (0..RowCount) \X (0..RowCount) : se[1] < se[2]}

\* No call is running for either iterator.  who: the iterator the call is
\* for; name: the wrapped operation; pc: the position in the wrapper;
\* atCall: the handle stored when the wrapper was entered; ci, result: the
\* locals of __next__.
NoFrame ==
    [who |-> 0, name |-> "none", pc |-> "idle", atCall |-> EmptyGuid, ci |-> 0,
     result |-> <<>>]

\* No request was sent yet.  who: the iterator it was for; guid: the
\* wrapperGuid it carried; cls: the class of the exception it raised.
NoRequest == [who |-> 0, guid |-> EmptyGuid, cls |-> "none"]

\* The dataset/cell-text requests made for the iterator since iter_rows was
\* called: whether one of them has raised, and how many there were as long
\* as none has.  (The requests of iter_rows itself are those of its two
\* wrapped calls and are in log while each call runs.)
NoneSent == [text |-> 0, textFail |-> FALSE]

Count(s, name, cls) ==
    IF name # "_cell_text" \/ s.textFail THEN s
    ELSE IF cls # "none" THEN [text |-> 0, textFail |-> TRUE]
    ELSE [s EXCEPT !.text = @ + 1]

\* The handle-scoped operations a caller may invoke directly.
DirectOps ==
    { Op("get_info", 0, 0), Op("get_progress", 0, 0),
      Op("_values", RowCount, 0), Op("_cell_text", 0, 1) }

\* The arguments iter_rows is called with.
Starts == -1..(RowCount + 1)

StopArgs == {{}} \cup {{n} : n \in 0..(RowCount + 1)}

\* ----------------------------------------------------------- project state

NodeNames == {"A", "B"}

NodeTypes == {"X", "Y"}

\* The statuses wait_for_completion tells apart; "running" stands for any
\* status other than 'synchronized' and 'incomplete'.
Statuses == {"running", "synchronized", "incomplete"}

\* A node as project/nodes lists it, without its status and error message:
\* those are read only by wait_for_completion, in the round that fetched
\* them, and are modelled there.  id is the node's position in the server's
\* list.
Node(id, name, type) == [id |-> id, name |-> name, type |-> type]

\* What wait_for_completion reads of a node: errMsg is TRUE for a non-empty
\* message.
Stats(status, errMsg) == [status |-> status, errMsg |-> errMsg]

\* The names and types the nodes of the project have: two nodes may share
\* a name, a type, or both.
NodeKinds == {<<"A", "X">>, <<"A", "Y">>, <<"B", "X">>}

\* The node lists a project may have.
NodeLists ==
    UNION { { [i \in 1..n |-> Node(i, f[i][1], f[i][2])] : f \in [1..n -> NodeKinds] } :
            n \in 0..MaxNodes }

\* The argument _find_node gets: a bare name (type "None") or a dict with
\* name and type.
NoType == "None"

Ref(name, type) == [name |-> name, type |-> type]

\* The arguments the caller uses: each name bare, and "A" with each type.
Refs == {Ref(n, NoType) : n \in NodeNames} \cup {Ref("A", t) : t \in NodeTypes}

\* The argument lists execute is called with.
ArgLists == UNION { [1..n -> Refs] : n \in 0..MaxArgs }

\* APIException(f"Node not found: name='{name_}', type='{type_}'", status_code=500)
NodeNotFound(ref) ==
    Exc("APIException",
        "Node not found: name='" \o ref.name \o "', type='" \o ref.type \o "'", "", 500)

FindNode_AnyType(list, ref) ==
    IF \E i \in 1..Len(list) : list[i].name = ref.name
    THEN CHOOSE i \in 1..Len(list) :
            /\ list[i].name = ref.name
            /\ \A j \in 1..(i - 1) : list[j].name # ref.name
    ELSE 0

FindNode_Last(list, ref) ==
    LET hits == {i \in 1..Len(list) :
                    list[i].name = ref.name
                    /\ (ref.type = NoType \/ list[i].type = ref.type)}
    IN  IF hits = {} THEN 0 ELSE CHOOSE i \in hits : \A j \in hits : j <= i

\* Project._find_node: the for loop over self._node_list from position i
\* on; the position of the node it returns, 0 when it raises.
RECURSIVE FindFrom(_, _, _)
FindFrom(list, ref, i) ==
    IF i > Len(list)
    THEN 0
    ELSE IF list[i].name = ref.name /\ (ref.type = NoType \/ list[i].type = ref.type)
    THEN i
    ELSE FindFrom(list, ref, i + 1)

FindNode(list, ref) == FindFrom(list, ref, 1)

Resolve_SkipMissing(list, args, k, nodes) ==
    LET found == SelectSeq(args, LAMBDA a : FindNode(list, a) # 0)
    IN  [missing |-> 0,
         nodes |-> [j \in 1..Len(found) |->
                      Ref(list[FindNode(list, found[j])].name,
                          list[FindNode(list, found[j])].type)]]

\* execute: the loop `for arg in args` from position k on, with the nodes
\* collected so far; it ends at the first argument that is not found.
RECURSIVE Resolve(_, _, _, _)
Resolve(list, args, k, nodes) ==
    IF k > Len(args)
    THEN [missing |-> 0, nodes |-> nodes]
    ELSE LET i == FindNode(list, args[k])
         IN  IF i = 0
             THEN [missing |-> k, nodes |-> nodes]
             ELSE Resolve(list, args, k + 1,
                          Append(nodes, Ref(list[i].name, list[i].type)))

\* No statistics read yet.
NoStats == Stats("none", FALSE)

NoPop ==
    [name |-> "none", args |-> <<>>, wait |-> FALSE, nodes |-> <<>>, wave |-> 0,
     k |-> 0, polls |-> 0, stats |-> NoStats]

\* What a Project operation gives its caller: kind "pending" nothing yet,
\* "None" the value None, "exc" an exception, "wave" a wave id, "node" the node at that
\* position of _node_list (wrapped as DataSet or Parameters), "bool" a flag.
PResult(kind, wave, node, flag) ==
    [kind |-> kind, exc |-> NoExc, wave |-> wave, node |-> node, flag |-> flag]

PPending == PResult("pending", 0, 0, FALSE)

PNone == PResult("None", 0, 0, FALSE)

PThrown(exc) == [PNone EXCEPT !.kind = "exc", !.exc = exc]

InitDataSet ==
    /\ valid = {}
    /\ nextGuid = 1
    /\ guid = EmptyGuid
    /\ pc = "idle"
    /\ op = NoOp
    /\ outer = "none"
    /\ log = <<>>
    /\ resp = Transport
    /\ raised = NoExc
    /\ ret = NoRet
    /\ it = NoIter
    /\ row = NoRow
    /\ yielded = <<>>
    /\ rejected = {}
    /\ age = "new"
    /\ faulted = FALSE
    /\ raced = FALSE
    /\ sent = NoneSent

\* The two RowIterator variables of the caller, both unset, and no call
\* running for either.
NewIterators ==
    /\ iters = [i \in TwoIters |-> NoIter]
    /\ rowsOut = [i \in TwoIters |-> <<>>]
    /\ frame = NoFrame
    /\ lastReq = NoRequest
    /\ acquirer = 0
    /\ acqFailed = FALSE

\* A Project object right after construction, with nothing running.
NewProject ==
    /\ running = {}
    /\ nextWave = 1
    /\ node_list = <<>>
    /\ ppc = "idle"
    /\ pop = NoPop
    /\ pret = PPending
    /\ psent = {}

\* A DataSet of a project without nodes the model looks at.
Init == InitDataSet /\ NewProject /\ NewIterators /\ srvNodes = <<>>

\* ------------------------------------------------------------------ server

\* The server drops a live wrapper at its discretion.
Invalidate ==
    /\ \E g \in valid : valid' = valid \ {g}
    /\ raced' = (raced \/ pc = "attempt2")
    /\ UNCHANGED <<nextGuid, guid, pc, op, outer, log, resp, raised, ret, it, row,
                   yielded, rejected, age, faulted>>
    /\ UNCHANGED <<sent, prjVars, twoVars>>

Served == {Resp(200, "json"), Resp(202, "json")}

\* What the server may answer to a handle-scoped request carrying guid g.
Replies(g) ==
    (IF g \in valid THEN Served ELSE {WrapperGone}) \cup FaultResponses \cup {Transport}

\* ----------------------------------------------------------------- wrapper

\* Mutant: the operation sends the handle it saw when the wrapper was entered.
RequestGuid_Snapshot(current, atCall) == atCall

\* The wrapperGuid a handle-scoped operation sends: self.guid, read when the
\* request is built (atCall: the handle when the wrapper was entered).
RequestGuid(current, atCall) == current

\* Mutant: the except clause re-raises instead of retrying.
AfterAttempt_NoRetry(phase, cls) == IF cls = "none" THEN "return" ELSE "raise"

\* Mutant: the retried call is itself wrapped, so it retries again.
AfterAttempt_Loop(phase, cls) ==
    IF cls = "none" THEN "return"
    ELSE IF cls = "_WrapperNotFound" THEN "acquire"
    ELSE "raise"

\* Mutant: the except clause catches every exception.
AfterAttempt_RetryAny(phase, cls) ==
    IF cls = "none" THEN "return"
    ELSE IF phase = "attempt1" THEN "acquire"
    ELSE "raise"

\* retry_on_invalid_guid: where the wrapper goes after an attempt that
\* raised exception class cls ("none": it returned).
AfterAttempt(phase, cls) ==
    IF cls = "none" THEN "return"
    ELSE IF phase = "attempt1" /\ cls = "_WrapperNotFound" THEN "acquire"
    ELSE "raise"

\* Mutant: the acquired guid is not stored.
UpdateGuid_Keep(old, exc, new) == old

UpdateGuid_Always(old, exc, new) == new

\* DataSet._update_guid: the handle stored after the acquire call, which
\* raised exc or returned new.
UpdateGuid(old, exc, new) == IF exc.cls = "none" THEN new ELSE old

\* A logged request: its endpoint, the wrapperGuid it carried, the class of
\* the exception it raised ("none": it returned) and whether that guid had
\* been rejected before.
LogEntry(ep, g, cls) ==
    [ep |-> ep, guid |-> g, cls |-> cls, stale |-> g \in rejected]

\* The acquire request carries the project and node ids and no wrapperGuid.
AcquireEntry(ep, cls) == [ep |-> ep, guid |-> EmptyGuid, cls |-> cls, stale |-> FALSE]

\* A wrapped operation is invoked: the wrapper is entered.
Enter(o, who) ==
    /\ pc' = "attempt1"
    /\ op' = o
    /\ outer' = who
    /\ log' = <<>>
    /\ ret' = NoRet
    /\ age' = IF age = "new" THEN "first" ELSE "later"

\* A caller invokes a handle-scoped operation directly.
Call ==
    /\ pc = "idle"
    /\ \E o \in DirectOps : Enter(o, "user")
    /\ UNCHANGED <<valid, nextGuid, guid, resp, raised, it, row, yielded, rejected,
                   faulted, raced>>
    /\ UNCHANGED <<sent, prjVars, twoVars>>

\* func(cls, ...): one attempt of the wrapped operation, which sends its
\* request with the handle stored at that moment and gets the answer.  The
\* wrapper then returns, raises, or goes on to re-acquire.
Attempt ==
    /\ pc \in {"attempt1", "attempt2"}
    /\ LET g == RequestGuid(guid, IF log = <<>> THEN guid ELSE log[1].guid)
           url == Endpoint(op.name)
       IN  \E r \in Replies(g) :
             LET exc == ApiRequest(r, url)
             IN  /\ resp' = r
                 /\ raised' = exc
                 /\ log' = Append(log, LogEntry(url, g, exc.cls))
                 /\ rejected' = IF r = WrapperGone THEN rejected \cup {g} ELSE rejected
                 /\ faulted' = (faulted \/ r \in FaultResponses \cup {Transport})
                 /\ pc' = IF AfterAttempt(pc, exc.cls) = "acquire" THEN "acquire" ELSE "done"
                 /\ sent' = IF outer \in {"iter_rows", "next"}
                            THEN Count(sent, op.name, exc.cls)
                            ELSE sent
    /\ UNCHANGED <<valid, nextGuid, guid, op, outer, ret, it, row, yielded, age, raced>>
    /\ UNCHANGED <<prjVars, twoVars>>

\* cls._update_guid(): the acquire request.  The server creates a wrapper
\* and returns its guid, or the request fails and the exception leaves the
\* wrapper.
Acquire ==
    /\ pc = "acquire"
    /\ LET url == "dataset/wrapper-guid"
       IN  \/ /\ nextGuid <= MaxGuid
              /\ \E r \in Served :
                   /\ resp' = r
                   /\ raised' = ApiRequest(r, url)
                   /\ guid' = UpdateGuid(guid, ApiRequest(r, url), nextGuid)
                   /\ valid' = valid \cup {nextGuid}
                   /\ nextGuid' = nextGuid + 1
                   /\ log' = Append(log, AcquireEntry(url, "none"))
                   /\ pc' = "attempt2"
                   /\ UNCHANGED faulted
           \/ \E r \in FaultResponses \cup {Transport, WrapperGone} :
                   /\ resp' = r
                   /\ raised' = ApiRequest(r, url)
                   /\ guid' = UpdateGuid(guid, ApiRequest(r, url), nextGuid)
                   /\ log' = Append(log, AcquireEntry(url, ApiRequest(r, url).cls))
                   /\ pc' = "done"
                   /\ faulted' = TRUE
                   /\ UNCHANGED <<valid, nextGuid>>
    /\ UNCHANGED <<op, outer, ret, it, row, yielded, rejected, age, raced>>
    /\ UNCHANGED <<sent, prjVars, twoVars>>

\* The wrapped operation that a caller invoked directly is over: the caller
\* gets its result or the exception that left the wrapper.
ReturnToUser ==
    /\ pc = "done"
    /\ outer = "user"
    /\ pc' = "idle"
    /\ outer' = "none"
    /\ ret' = IF raised.cls = "none" THEN Returned("ok") ELSE Thrown(raised)
    /\ UNCHANGED <<valid, nextGuid, guid, op, log, resp, raised, it, row, yielded,
                   rejected, age, faulted, raced>>
    /\ UNCHANGED <<sent, prjVars, twoVars>>

\* ---------------------------------------------------------------- iterator

StopOf_Short(stopArg, max_row) ==
    IF stopArg = {} THEN max_row - 1 ELSE CHOOSE n \in stopArg : TRUE

\* iter_rows: stop defaults to the row count of the fetched info.
StopOf(stopArg, max_row) ==
    IF stopArg = {} THEN max_row ELSE CHOOSE n \in stopArg : TRUE

InRange_NoUpper(start, stop, max_row) == 0 <= start /\ start <= stop

\* iter_rows: not 0 <= start <= stop <= max_row raises ValueError.
InRange(start, stop, max_row) == 0 <= start /\ start <= stop /\ stop <= max_row

RangeError ==
    Exc("ValueError", "start and stop arguments must be within dataset row range", "", 0)

StopIteration == Exc("StopIteration", "", "", 0)

\* RowIterator.__next__: the for loop over info['columnsInfo'] from column
\* position ci on, run until a column needs a cell-text request ("fetch")
\* or the columns are through ("done").  result holds the values by column
\* position.
RunColumns_AllText(rows, idx, ci, result) ==
    IF ci > Len(columnsInfo)
    THEN [at |-> "done", ci |-> ci, result |-> result]
    ELSE [at |-> "fetch", ci |-> ci, result |-> result]

RunColumns_BulkOnly(rows, idx, ci, result) ==
    [at |-> "done", ci |-> Len(columnsInfo) + 1,
     result |-> [k \in 1..Len(columnsInfo) |-> rows[idx + 1][columnsInfo[k].id]]]

RECURSIVE RunColumns(_, _, _, _)
RunColumns(rows, idx, ci, result) ==
    IF ci > Len(columnsInfo)
    THEN [at |-> "done", ci |-> ci, result |-> result]
    ELSE IF columnsInfo[ci].getTextAlways
    THEN [at |-> "fetch", ci |-> ci, result |-> result]
    ELSE RunColumns(rows, idx, ci + 1, Append(result, rows[idx + 1][columnsInfo[ci].id]))

Advance_Skip(idx) == idx + 2

IndexOnRaise_Advanced(idx) == idx + 1

\* RowIterator.__next__: the index when an exception of get_text leaves
\* __next__, which happens before the statement self.idx += 1.
IndexOnRaise(idx) == idx

\* RowIterator.__next__: the index after a row was returned.
Advance(idx) == idx + 1

\* iter_rows(start, stop) is called: it begins with self.get_info().  The
\* caller holds one iterator at a time: an earlier one is abandoned here.
IterRows ==
    /\ pc = "idle"
    /\ \E start \in Starts, stopArg \in StopArgs :
         it' = [NoIter EXCEPT !.phase = "info", !.start = start, !.stopArg = stopArg]
    /\ Enter(Op("get_info", 0, 0), "iter_rows")
    /\ row' = NoRow
    /\ yielded' = <<>>
    /\ faulted' = FALSE
    /\ raced' = FALSE
    /\ sent' = NoneSent
    /\ UNCHANGED <<valid, nextGuid, guid, resp, raised, rejected>>
    /\ UNCHANGED <<prjVars, twoVars>>

\* iter_rows after get_info: the exception propagates, or the bounds are
\* checked against info['rowCount'] and self._values(stop) is called.
IterRowsInfo ==
    /\ pc = "done"
    /\ outer = "iter_rows"
    /\ it.phase = "info"
    /\ LET stop == StopOf(it.stopArg, Info.rowCount)
       IN  IF raised.cls # "none"
           THEN /\ ret' = Thrown(raised)
                /\ it' = NoIter
                /\ pc' = "idle"
                /\ outer' = "none"
                /\ UNCHANGED <<op, log, age>>
           ELSE IF ~InRange(it.start, stop, Info.rowCount)
           THEN /\ ret' = Thrown(RangeError)
                /\ it' = NoIter
                /\ pc' = "idle"
                /\ outer' = "none"
                /\ UNCHANGED <<op, log, age>>
           ELSE /\ it' = [it EXCEPT !.phase = "values", !.stop = stop]
                /\ Enter(Op("_values", stop, 0), "iter_rows")
    /\ UNCHANGED <<valid, nextGuid, guid, resp, raised, row, yielded, rejected, faulted,
                   raced>>
    /\ UNCHANGED <<sent, prjVars, twoVars>>

\* iter_rows after _values: the exception propagates, or the RowIterator is
\* made over the fetched table with idx = start and returned.
IterRowsValues ==
    /\ pc = "done"
    /\ outer = "iter_rows"
    /\ it.phase = "values"
    /\ IF raised.cls # "none"
       THEN /\ ret' = Thrown(raised)
            /\ it' = NoIter
       ELSE /\ ret' = Returned("iterator")
            /\ it' = [it EXCEPT !.phase = "live", !.idx = it.start, !.rows = Table(op.row)]
    /\ pc' = "idle"
    /\ outer' = "none"
    /\ UNCHANGED <<valid, nextGuid, guid, op, log, resp, raised, row, yielded, rejected,
                   age, faulted, raced>>
    /\ UNCHANGED <<sent, prjVars, twoVars>>

\* __next__ from column position ci on: it asks for a cell text, or the row
\* is complete, the index advances and the row is returned.
Produce(ci, result) ==
    LET run == RunColumns(it.rows, it.idx, ci, result)
    IN  IF run.at = "fetch"
        THEN /\ row' = [ci |-> run.ci, result |-> run.result]
             /\ Enter(Op("_cell_text", it.idx, columnsInfo[run.ci].id), "next")
             /\ UNCHANGED <<it, yielded>>
        ELSE /\ row' = NoRow
             /\ it' = [it EXCEPT !.idx = Advance(it.idx)]
             /\ yielded' = Append(yielded, run.result)
             /\ ret' = Returned("row")
             /\ pc' = "idle"
             /\ outer' = "none"
             /\ UNCHANGED <<op, log, age>>

\* next(iterator) is called.
NextRow ==
    /\ pc = "idle"
    /\ it.phase = "live"
    /\ IF it.idx >= it.stop
       THEN /\ ret' = Thrown(StopIteration)
            /\ UNCHANGED <<pc, op, outer, log, it, row, yielded, age>>
       ELSE Produce(1, <<>>)
    /\ UNCHANGED <<valid, nextGuid, guid, resp, raised, rejected, faulted, raced>>
    /\ UNCHANGED <<sent, prjVars, twoVars>>

\* iter(iterator) is called: __iter__ returns the iterator itself.
IterSelf ==
    /\ pc = "idle"
    /\ it.phase = "live"
    /\ ret' = Returned("iterator")
    /\ UNCHANGED <<valid, nextGuid, guid, pc, op, outer, log, resp, raised, it, row,
                   yielded, rejected, age, faulted, raced, sent>>
    /\ UNCHANGED <<prjVars, twoVars>>

\* __next__ after get_text: the exception propagates and the index stays,
\* or the text is stored under the column and the loop goes on.
NextText ==
    /\ pc = "done"
    /\ outer = "next"
    /\ IF raised.cls # "none"
       THEN /\ ret' = Thrown(raised)
            /\ row' = NoRow
            /\ it' = [it EXCEPT !.idx = IndexOnRaise(it.idx)]
            /\ pc' = "idle"
            /\ outer' = "none"
            /\ UNCHANGED <<op, log, yielded, age>>
       ELSE Produce(row.ci + 1, Append(row.result, CellText(op.row, op.col)))
    /\ UNCHANGED <<valid, nextGuid, guid, resp, raised, rejected, faulted, raced>>
    /\ UNCHANGED <<sent, prjVars, twoVars>>

Next ==
    \/ Call
    \/ Attempt
    \/ Acquire
    \/ ReturnToUser
    \/ IterRows
    \/ IterRowsInfo
    \/ IterRowsValues
    \/ NextRow
    \/ NextText
    \/ IterSelf
    \/ Invalidate

Spec == Init /\ [][Next]_vars

\* ----------------------------------------------------------------- project

\* The failures of a request of a Project operation the model looks at: an
\* error response and a request that gets no response.
Failures == {Resp(500, "pair"), Transport}

\* Project.dataset(node): DataSet(self, self._find_node(node)).
Dataset ==
    /\ ppc = "idle"
    /\ \E ref \in Refs :
         LET i == FindNode(node_list, ref)
         IN  /\ pop' = [NoPop EXCEPT !.name = "dataset", !.args = <<ref>>]
             /\ pret' = IF i = 0 THEN PThrown(NodeNotFound(ref))
                        ELSE PResult("node", 0, i, FALSE)
    /\ ppc' = "done"
    /\ psent' = {}
    /\ UNCHANGED <<srvNodes, running, nextWave, node_list, dsVars, twoVars>>

\* Project.parameters(name): Parameters(api, uuid, self._find_node(name)['id']).
Parameters ==
    /\ ppc = "idle"
    /\ \E ref \in Refs :
         LET i == FindNode(node_list, ref)
         IN  /\ pop' = [NoPop EXCEPT !.name = "parameters", !.args = <<ref>>]
             /\ pret' = IF i = 0 THEN PThrown(NodeNotFound(ref))
                        ELSE PResult("node", 0, i, FALSE)
    /\ ppc' = "done"
    /\ psent' = {}
    /\ UNCHANGED <<srvNodes, running, nextWave, node_list, dsVars, twoVars>>

\* Project.execute(*args, wait) up to its request: every argument is
\* resolved, and the first one that is not found raises; otherwise the
\* project/execute request is sent.
Execute ==
    /\ ppc = "idle"
    /\ \E args \in ArgLists, wait \in BOOLEAN :
         LET res == Resolve(node_list, args, 1, <<>>)
         IN  /\ pop' = [NoPop EXCEPT !.name = "execute", !.args = args, !.wait = wait,
                                     !.nodes = res.nodes]
             /\ IF res.missing # 0
                THEN /\ pret' = PThrown(NodeNotFound(args[res.missing]))
                     /\ ppc' = "done"
                ELSE /\ pret' = PPending
                     /\ ppc' = "execute"
    /\ psent' = {}
    /\ UNCHANGED <<srvNodes, running, nextWave, node_list, dsVars, twoVars>>

\* execute: int(parse_qs(urlparse(location).query).get('executionWave')[0]),
\* None (here 0) on TypeError.  location is {} when the header names no
\* wave and {w} when it names wave w.
WaveId(location) == IF location = {} THEN 0 ELSE CHOOSE w \in location : TRUE

AfterExecute_NoWait(location) ==
    /\ pret' = IF WaveId(location) = 0 THEN PNone
               ELSE PResult("wave", WaveId(location), 0, FALSE)
    /\ ppc' = "done"
    /\ pop' = [pop EXCEPT !.wave = WaveId(location)]

\* execute after its request was served with this location header:
\* without wait the wave id is returned; with wait and no wave id every
\* node is waited for; with wait and a wave id the wave is polled.
AfterExecute(location) ==
    LET wave_id == WaveId(location)
    IN  IF ~pop.wait
        THEN /\ pret' = IF wave_id = 0 THEN PNone ELSE PResult("wave", wave_id, 0, FALSE)
             /\ ppc' = "done"
             /\ pop' = [pop EXCEPT !.wave = wave_id]
        ELSE IF wave_id = 0
        THEN IF pop.nodes = <<>>
             THEN /\ pret' = PNone
                  /\ ppc' = "done"
                  /\ pop' = [pop EXCEPT !.wave = wave_id]
             ELSE /\ pret' = PPending
                  /\ ppc' = "waiting"
                  /\ pop' = [pop EXCEPT !.wave = wave_id, !.k = 1]
        ELSE /\ pret' = PPending
             /\ ppc' = "polling"
             /\ pop' = [pop EXCEPT !.wave = wave_id]

\* The project/execute request is answered: it fails and the exception
\* leaves execute, or the server starts a new wave and names it in the
\* location header, or it answers without naming a wave.
ExecuteReply ==
    /\ ppc = "execute"
    /\ psent' = psent \cup {"project/execute"}
    /\ \/ \E r \in Failures :
            /\ pret' = PThrown(ApiRequest(r, "project/execute"))
            /\ ppc' = "done"
            /\ UNCHANGED <<pop, running, nextWave>>
       \/ /\ nextWave <= MaxWave
          /\ \E r \in Served : ApiRequest(r, "project/execute") = NoExc
          /\ running' = running \cup {nextWave}
          /\ nextWave' = nextWave + 1
          /\ AfterExecute({nextWave})
       \/ /\ \E r \in Served : ApiRequest(r, "project/execute") = NoExc
          /\ AfterExecute({})
          /\ UNCHANGED <<running, nextWave>>
    /\ UNCHANGED <<srvNodes, node_list, dsVars, twoVars>>

\* The polls of one execute, counted up to MaxPolls.
Polled(n) == IF n < MaxPolls THEN n + 1 ELSE MaxPolls

\* execute(wait=True): `while self.is_running(wave_id): time.sleep(1)`.  One
\* project/is-running request: it fails and the exception leaves execute,
\* or the server says whether the wave is running, and execute polls again
\* or returns the wave id.
IsRunning ==
    /\ ppc = "polling"
    /\ psent' = psent \cup {"project/is-running"}
    /\ \/ \E r \in Failures :
            /\ pret' = PThrown(ApiRequest(r, "project/is-running"))
            /\ ppc' = "done"
            /\ UNCHANGED pop
       \/ /\ \E r \in Served : ApiRequest(r, "project/is-running") = NoExc
          /\ pop' = [pop EXCEPT !.polls = Polled(@)]
          /\ IF pop.wave \in running
             THEN UNCHANGED <<ppc, pret>>
             ELSE /\ pret' = PResult("wave", pop.wave, 0, FALSE)
                  /\ ppc' = "done"
    /\ UNCHANGED <<srvNodes, running, nextWave, node_list, dsVars, twoVars>>

\* Project.wait_for_completion(node) is called.
WaitForCompletion ==
    /\ ppc = "idle"
    /\ \E ref \in Refs :
         pop' = [NoPop EXCEPT !.name = "wait_for_completion", !.args = <<ref>>,
                             !.nodes = <<ref>>, !.k = 1]
    /\ ppc' = "waiting"
    /\ pret' = PPending
    /\ psent' = {}
    /\ UNCHANGED <<srvNodes, running, nextWave, node_list, dsVars, twoVars>>

\* wait_for_completion: what the node's statistics decide.
Completed_StatusFirst(stats) ==
    IF stats.status = "synchronized" THEN "True"
    ELSE IF stats.errMsg \/ stats.status = "incomplete" THEN "False"
    ELSE "again"

Completed(stats) ==
    IF stats.errMsg THEN "False"
    ELSE IF stats.status = "synchronized" THEN "True"
    ELSE IF stats.status = "incomplete" THEN "False"
    ELSE "again"

\* One round of wait_for_completion's loop, for the node at pop.k:
\* _update_node_list() requests project/nodes and stores the list, then
\* _find_node and the tests on the errMsg and status the node has in that
\* list.  Called by the user it
\* returns the flag; called by execute the flag is dropped and the next
\* node is waited for, and execute returns None after the last one.
WaitLoop ==
    /\ ppc = "waiting"
    /\ psent' = psent \cup {"project/nodes"}
    /\ \/ \E r \in Failures :
            /\ pret' = PThrown(ApiRequest(r, "project/nodes"))
            /\ ppc' = "done"
            /\ UNCHANGED <<pop, node_list>>
       \/ /\ \E r \in Served : ApiRequest(r, "project/nodes") = NoExc
          /\ node_list' = srvNodes
          /\ LET ref == pop.nodes[pop.k]
                 i == FindNode(node_list', ref)
             IN  IF i = 0
                 THEN /\ pret' = PThrown(NodeNotFound(ref))
                      /\ ppc' = "done"
                      /\ UNCHANGED pop
                 ELSE \E status \in Statuses, errMsg \in BOOLEAN :
                        LET stats == Stats(status, errMsg)
                        IN  IF Completed(stats) = "again"
                            THEN /\ pop' = [pop EXCEPT !.stats = stats]
                                 /\ UNCHANGED <<ppc, pret>>
                            ELSE IF pop.name = "wait_for_completion"
                            THEN /\ pret' = PResult("bool", 0, 0, Completed(stats) = "True")
                                 /\ ppc' = "done"
                                 /\ pop' = [pop EXCEPT !.stats = stats]
                            ELSE IF pop.k < Len(pop.nodes)
                            THEN /\ pop' = [pop EXCEPT !.k = @ + 1, !.stats = stats]
                                 /\ UNCHANGED <<ppc, pret>>
                            ELSE /\ pret' = PNone
                                 /\ ppc' = "done"
                                 /\ pop' = [pop EXCEPT !.stats = stats]
    /\ UNCHANGED <<srvNodes, running, nextWave, dsVars, twoVars>>

\* An execution wave ends at the server.
WaveEnds ==
    /\ \E w \in running : running' = running \ {w}
    /\ UNCHANGED <<srvNodes, nextWave, node_list, ppc, pop, pret, psent, dsVars, twoVars>>

\* The operation is over: the caller has its result or its exception, and
\* the operation's locals are gone.
ProjectReturn ==
    /\ ppc = "done"
    /\ ppc' = "idle"
    /\ pop' = NoPop
    /\ pret' = PPending
    /\ psent' = {}
    /\ UNCHANGED <<srvNodes, running, nextWave, node_list, dsVars, twoVars>>

InitProject == InitDataSet /\ NewProject /\ NewIterators /\ srvNodes \in NodeLists

NextProject ==
    \/ Dataset
    \/ Parameters
    \/ Execute
    \/ ExecuteReply
    \/ IsRunning
    \/ WaitForCompletion
    \/ WaitLoop
    \/ ProjectReturn
    \/ WaveEnds

SpecProject == InitProject /\ [][NextProject]_vars

\* The polling loop of execute keeps running: time.sleep(1) returns, the
\* next project/is-running request is sent, and a poll is served in the end.
\* (A served poll of a wave that is still running changes nothing once the
\* polls are counted up to MaxPolls, so a wave that never ends is polled
\* for ever.)
SpecProjectFair == SpecProject /\ WF_vars(IsRunning /\ pret'.kind # "exc")

\* ------------------------------------- two iterators of the one DataSet

\* The variables of the single-iterator DataSet calls, which rest here.
restVars ==
    <<pc, op, outer, log, resp, raised, ret, it, row, yielded, rejected, age,
      faulted, raced, sent>>

\* What the server answers to a request carrying guid g.
TwoReplies(g) == (IF g \in valid THEN Served ELSE {WrapperGone}) \cup Failures

\* A wrapped operation is invoked for iterator i: the wrapper is entered.
TwoEnter(i, name, ci, result) ==
    [who |-> i, name |-> name, pc |-> "attempt1", atCall |-> guid, ci |-> ci,
     result |-> result]

\* iter_rows(start, stop) is called and its result assigned to the
\* caller's variable i: it begins with self.get_info().
TwoIterRows(i) ==
    /\ frame.pc = "idle"
    /\ iters[i].phase = "none"
    /\ \E se \in Ranges :
         iters' = [iters EXCEPT ![i] = [NoIter EXCEPT !.phase = "info", !.start = se[1],
                                                     !.stopArg = {se[2]}]]
    /\ frame' = TwoEnter(i, "get_info", 0, <<>>)
    /\ UNCHANGED <<valid, nextGuid, guid, rowsOut, lastReq, acquirer, acqFailed>>
    /\ UNCHANGED <<restVars, prjVars>>

\* __next__ of iterator i from column position ci on: it asks for a cell
\* text, or the row is complete, the index advances and the row is returned.
TwoProduce(i, ci, result) ==
    LET run == RunColumns(iters[i].rows, iters[i].idx, ci, result)
    IN  IF run.at = "fetch"
        THEN /\ frame' = TwoEnter(i, "_cell_text", run.ci, run.result)
             /\ UNCHANGED <<iters, rowsOut>>
        ELSE /\ iters' = [iters EXCEPT ![i].idx = Advance(@)]
             /\ rowsOut' = [rowsOut EXCEPT ![i] = Append(@, run.result)]
             /\ frame' = NoFrame

\* next(iterator i) is called on an iterator that is not exhausted.
TwoNext(i) ==
    /\ frame.pc = "idle"
    /\ iters[i].phase = "live"
    /\ iters[i].idx < iters[i].stop
    /\ TwoProduce(i, 1, <<>>)
    /\ UNCHANGED <<valid, nextGuid, guid, lastReq, acquirer, acqFailed>>
    /\ UNCHANGED <<restVars, prjVars>>

\* The exception leaves the wrapper and the function that called it:
\* iter_rows returns no iterator, __next__ leaves its index where it was.
TwoRaise ==
    /\ iters' = IF frame.name = "_cell_text"
                THEN [iters EXCEPT ![frame.who].idx = IndexOnRaise(@)]
                ELSE [iters EXCEPT ![frame.who] = NoIter]
    /\ frame' = NoFrame
    /\ UNCHANGED rowsOut

\* The wrapped operation returned: iter_rows checks the bounds and calls
\* self._values(stop), or makes the RowIterator with idx = start; __next__
\* stores the text under its column and goes on with the row.
TwoReturn ==
    LET i == frame.who
        stop == StopOf(iters[i].stopArg, Info.rowCount)
    IN  CASE frame.name = "get_info" ->
               IF ~InRange(iters[i].start, stop, Info.rowCount)
               THEN /\ iters' = [iters EXCEPT ![i] = NoIter]
                    /\ frame' = NoFrame
                    /\ UNCHANGED rowsOut
               ELSE /\ iters' = [iters EXCEPT ![i].phase = "values", ![i].stop = stop]
                    /\ frame' = TwoEnter(i, "_values", 0, <<>>)
                    /\ UNCHANGED rowsOut
          [] frame.name = "_values" ->
               /\ iters' = [iters EXCEPT ![i].phase = "live", ![i].idx = iters[i].start,
                                         ![i].rows = Table(iters[i].stop)]
               /\ frame' = NoFrame
               /\ UNCHANGED rowsOut
          [] frame.name = "_cell_text" ->
               TwoProduce(i, frame.ci + 1,
                          Append(frame.result,
                                 CellText(iters[i].idx, columnsInfo[frame.ci].id)))

\* func(cls, ...): one attempt of the wrapped operation, with the handle
\* stored at that moment; the wrapper then returns, raises, or goes on to
\* re-acquire.
TwoAttempt ==
    /\ frame.pc \in {"attempt1", "attempt2"}
    /\ LET g == RequestGuid(guid, frame.atCall)
       IN  \E r \in TwoReplies(g) :
             LET exc == ApiRequest(r, Endpoint(frame.name))
                 after == AfterAttempt(frame.pc, exc.cls)
             IN  /\ lastReq' = [who |-> frame.who, guid |-> g, cls |-> exc.cls]
                 /\ IF after = "acquire"
                    THEN /\ frame' = [frame EXCEPT !.pc = "acquire"]
                         /\ UNCHANGED <<iters, rowsOut>>
                    ELSE IF after = "raise"
                    THEN TwoRaise
                    ELSE TwoReturn
    /\ UNCHANGED <<valid, nextGuid, guid, acquirer, acqFailed>>
    /\ UNCHANGED <<restVars, prjVars>>

\* cls._update_guid(): the acquire request of a call made for one of the
\* two iterators.
TwoUpdateGuid ==
    /\ frame.pc = "acquire"
    /\ LET url == "dataset/wrapper-guid"
       IN  \/ /\ nextGuid <= MaxGuid
              /\ \E r \in Served :
                   /\ guid' = UpdateGuid(guid, ApiRequest(r, url), nextGuid)
                   /\ valid' = valid \cup {nextGuid}
                   /\ nextGuid' = nextGuid + 1
                   /\ frame' = [frame EXCEPT !.pc = "attempt2"]
                   /\ acquirer' = frame.who
                   /\ acqFailed' = FALSE
                   /\ UNCHANGED <<iters, rowsOut>>
           \/ \E r \in Failures \cup {WrapperGone} :
                   /\ guid' = UpdateGuid(guid, ApiRequest(r, url), nextGuid)
                   /\ acqFailed' = TRUE
                   /\ TwoRaise
                   /\ UNCHANGED <<valid, nextGuid, acquirer>>
    /\ UNCHANGED lastReq
    /\ UNCHANGED <<restVars, prjVars>>

NextTwo ==
    \/ \E i \in TwoIters : TwoIterRows(i)
    \/ \E i \in TwoIters : TwoNext(i)
    \/ TwoAttempt
    \/ TwoUpdateGuid
    \/ Invalidate

\* One DataSet, one thread, two RowIterators consumed in any interleaving.
SpecTwo == Init /\ [][NextTwo]_vars

\* ------------------------------------------------------------------ claims

AcquireUrl == "dataset/wrapper-guid"

WNF == "_WrapperNotFound"

\* The positions of the current call's log that are attempts of the wrapped
\* operation, and those that are acquire requests.
Attempts == {i \in DOMAIN log : log[i].ep # AcquireUrl}

Acquires == {i \in DOMAIN log : log[i].ep = AcquireUrl}

\* The wrapper has returned or raised, and no other wrapped call has begun.
Over == pc \in {"done", "idle"} /\ log # <<>>

\* C1: when the first attempt of a wrapped operation fails with
\* _WrapperNotFound, exactly one acquire request follows it; when the acquire
\* succeeds the operation is attempted exactly once more, after the acquire,
\* and what leaves the wrapper is what that second attempt gave: its result,
\* or its exception, a second _WrapperNotFound included.
C1_RetryOnce ==
    (Over /\ log[1].cls = WNF) =>
        /\ Len(log) >= 2
        /\ Acquires = {2}
        /\ log[2].cls = "none" =>
             /\ Attempts = {1, 3}
             /\ log[3].ep = Endpoint(op.name)
             /\ raised.cls = log[3].cls
             /\ raised = ApiRequest(resp, log[3].ep)

\* C1 witness: a first attempt failed with _WrapperNotFound, the acquire
\* succeeded and the second attempt returned.
C1_Witness ==
    /\ Over
    /\ Len(log) = 3
    /\ log[1].cls = WNF
    /\ log[2].cls = "none"
    /\ log[3].cls = "none"
    /\ raised = NoExc

\* C2 (as claimed): no request carries a guid that an earlier request was
\* rejected for.
C2_NeverReused == \A i \in DOMAIN log : ~log[i].stale

\* C2 (amended): a request that carries a guid already rejected is the first
\* attempt of a call, sent with the handle still stored; a retry never
\* carries a rejected guid, and a guid that was replaced is never sent again.
C2_RetryNeverStale ==
    \A i \in DOMAIN log :
        log[i].stale => (i = 1 /\ (Len(log) = 1 => log[i].guid = guid))

\* C2 witness: a retry was sent after a rejection and a successful acquire.
C2_Witness ==
    /\ Len(log) = 3
    /\ log[1].cls = WNF
    /\ log[1].guid \in rejected
    /\ log[3].guid \notin rejected

\* C3: one invocation of a wrapped operation issues at most two attempts and
\* at most one acquire request, the acquire only after a failed first attempt
\* and the second attempt only after the acquire; every step of the wrapper
\* adds a request, so it is over after at most three.
C3_Bounded ==
    /\ Cardinality(Attempts) <= 2
    /\ Cardinality(Acquires) <= 1
    /\ Acquires \subseteq {2}
    /\ Attempts \subseteq {1, 3}
    /\ (pc = "attempt1") = (outer # "none" /\ log = <<>>)
    /\ pc = "acquire" => Len(log) = 1
    /\ pc = "attempt2" => Len(log) = 2

\* C3 witness: a call that used both attempts and the acquire is over.
C3_Witness == Over /\ Cardinality(Attempts) = 2 /\ Cardinality(Acquires) = 1

\* C4 (as claimed): the exception that leaves the wrapper is never
\* _WrapperNotFound.
C4_NeverSurfaced == Over => raised.cls # WNF

\* C4 (amended): the _WrapperNotFound of a first attempt never leaves the
\* wrapper; the one that does was raised by the retried attempt or by the
\* acquire call, after the first attempt's was caught.
C4_OnlySecondSurfaces ==
    (Over /\ raised.cls = WNF) =>
        /\ Len(log) >= 2
        /\ log[1].cls = WNF
        /\ log[Len(log)].cls = WNF
        /\ raised = ApiRequest(resp, log[Len(log)].ep)

\* C4 witness: the acquire call itself was answered with the unknown-wrapper
\* error, which left the wrapper.
C4_Witness ==
    /\ Over
    /\ Len(log) = 2
    /\ log[2].ep = AcquireUrl
    /\ raised.cls = WNF

\* C5: a first attempt that fails with anything but _WrapperNotFound ends the
\* call: no acquire, no second attempt, the handle as it was sent, and the
\* exception of that request leaves the wrapper as raised.
C5_OtherFailurePropagates ==
    (log # <<>> /\ log[1].cls \notin {"none", WNF}) =>
        /\ Over
        /\ Len(log) = 1
        /\ guid = log[1].guid
        /\ raised = ApiRequest(resp, log[1].ep)
        /\ raised.cls \in {"APIException", "ClientException"}

\* C5 witness: a transport failure and a server error have each ended a call
\* at its first attempt; here the transport failure.
C5_Witness ==
    /\ Over
    /\ Len(log) = 1
    /\ resp = Transport
    /\ raised.cls = "ClientException"

\* The last request of the current call.
Last == log[Len(log)]

\* C6 (as claimed): the response with the unknown-wrapper message is raised
\* as _WrapperNotFound, and every other response with an error status (4xx,
\* 5xx) is raised as APIException carrying the message, the url and the
\* status code.
C6_ResponseMapping ==
    (log # <<>> /\ resp # Transport) =>
        IF resp = WrapperGone
        THEN raised.cls = WNF
        ELSE RaisesForStatus(resp.status) =>
                /\ raised.cls = "APIException"
                /\ raised.url = Last.ep
                /\ raised.status = resp.status

\* C7 (as claimed): every response whose status is not 200 or 202 (the
\* unknown-wrapper error apart) is raised as APIException with the request's
\* url and the status code, and ClientException stands for a transport
\* failure only.
C7_NonSuccessIsAPIError ==
    log # <<>> =>
        /\ (resp # Transport /\ resp # WrapperGone /\ resp.status \notin SuccessStatuses) =>
                raised = Exc("APIException", raised.msg, Last.ep, resp.status)
        /\ raised.cls = "ClientException" => resp = Transport

\* C8: a DataSet that has made no call holds the empty handle.  Its first
\* wrapped call sends the operation with wrapperGuid = '', which never
\* succeeds; when that is rejected as _WrapperNotFound the next request is
\* the acquire, and when the acquire returns the third request is the same
\* operation carrying the acquired guid, which is the handle stored from then
\* on.  The call makes no other request.
C8_FirstCall ==
    /\ age = "new" => (guid = EmptyGuid /\ log = <<>>)
    /\ age = "first" =>
        /\ log = <<>> => guid = EmptyGuid
        /\ Len(log) >= 1 =>
             /\ log[1].ep = Endpoint(op.name)
             /\ log[1].guid = EmptyGuid
             /\ ~log[1].stale
             /\ log[1].cls # "none"
             /\ (log[1].cls = WNF) = (pc = "acquire" \/ Len(log) >= 2)
        /\ Len(log) >= 2 => log[2].ep = AcquireUrl
        /\ Len(log) = 2 => (log[2].cls = "none") = (pc = "attempt2")
        /\ Len(log) >= 3 =>
             /\ Len(log) = 3
             /\ log[2].cls = "none"
             /\ log[3].ep = log[1].ep
             /\ log[3].guid # EmptyGuid
             /\ log[3].guid = guid
             /\ guid = nextGuid - 1
        /\ (Len(log) < 3 /\ pc \notin {"attempt2"}) => guid = EmptyGuid

\* C8 witness: the first call of the DataSet is over after exactly the three
\* requests, and it returned.
C8_Witness ==
    /\ age = "first"
    /\ Over
    /\ Len(log) = 3
    /\ log[1].guid = EmptyGuid
    /\ log[1].cls = WNF
    /\ log[2].ep = AcquireUrl
    /\ log[3].guid = guid
    /\ raised = NoExc

\* C9: whenever the wrapper re-acquired, the retried request carries the
\* newly acquired guid, which is the stored handle, and not the guid the
\* failed attempt carried; a first attempt carries the handle stored when it
\* is sent.
C9_CurrentHandle ==
    /\ Len(log) = 1 => log[1].guid = guid
    /\ Len(log) = 3 =>
        /\ log[3].guid = guid
        /\ log[3].guid # log[1].guid
        /\ log[3].guid = nextGuid - 1
        /\ ~log[3].stale

\* C9 witness: a handle that had been acquired was rejected, and the retry
\* carried the next one.
C9_Witness ==
    /\ Len(log) = 3
    /\ log[1].guid # EmptyGuid
    /\ log[1].cls = WNF
    /\ log[3].guid = guid
    /\ log[3].guid # log[1].guid

\* The row the iterator is to return for row index r when nothing fails.
ExpectedRow(r) ==
    [k \in 1..Len(columnsInfo) |->
        IF columnsInfo[k].getTextAlways
        THEN CellText(r, columnsInfo[k].id)
        ELSE BulkValue(r, columnsInfo[k].id)]

\* A wrapped call made for the iterator (by iter_rows or by __next__) is over.
IterCallOver == pc = "done" /\ outer \in {"iter_rows", "next"}

\* C10 (as claimed): as long as every request is answered by serving it or
\* by the unknown-wrapper error and every acquire succeeds, no cell-text call
\* of the iterator raises, wherever the server drops the wrapper.
C10_AnyPoint ==
    (pc = "done" /\ outer = "next" /\ it.phase = "live" /\ ~faulted) => raised.cls = "none"

\* C10 (amended): the same, provided the server drops no wrapper between the
\* acquire and the retry of one call: then no call made for the iterator
\* raises, a call whose first attempt was rejected is replayed exactly once
\* after one acquire, and a call that was not rejected is not replayed.  In
\* every case the rows returned so far are the rows start, start + 1, ... of
\* the dataset in order, one per advance of the index, and exhaustion is
\* signalled only at idx = stop.
C10_Transparent ==
    /\ (IterCallOver /\ ~faulted /\ ~raced) =>
            /\ raised.cls = "none"
            /\ log[1].cls = WNF =>
                 (Len(log) = 3 /\ log[3].ep = log[1].ep /\ log[2].ep = AcquireUrl)
            /\ log[1].cls = "none" => Len(log) = 1
    /\ it.phase = "live" =>
            /\ it.start <= it.idx /\ it.idx <= it.stop
            /\ yielded = [k \in 1..(it.idx - it.start) |-> ExpectedRow(it.start + k - 1)]
            /\ (pc = "idle" /\ ret = Thrown(StopIteration)) => it.idx = it.stop

\* C10 witness: the iterator has returned every row of [0, RowCount), and the
\* cell-text call of its last row was rejected, re-acquired and replayed.
C10_Witness ==
    /\ it.phase = "live"
    /\ it.start = 0
    /\ it.idx = RowCount
    /\ it.idx = it.stop
    /\ Len(yielded) = RowCount
    /\ ret = Returned("row")
    /\ Len(log) = 3
    /\ log[1].ep = "dataset/cell-text"
    /\ log[1].cls = WNF
    /\ log[1].guid # EmptyGuid
    /\ ~faulted
    /\ ~raced

\* C11: an iterator exists only for 0 <= start <= stop <= rowCount, with
\* stop = rowCount when stop was omitted; the rows it has returned are the
\* rows of the indices start, start + 1, ... in increasing order, one per
\* advance of the index, whatever failed in between; it returns no row of
\* an index >= stop, and when it signals exhaustion it has returned exactly
\* stop - start rows.
C11_RowsOfRange ==
    it.phase = "live" =>
        /\ 0 <= it.start /\ it.start <= it.stop /\ it.stop <= RowCount
        /\ it.stopArg = {} => it.stop = RowCount
        /\ it.stopArg # {} => it.stopArg = {it.stop}
        /\ Len(yielded) = it.idx - it.start
        /\ Len(yielded) <= it.stop - it.start
        /\ \A k \in 1..Len(yielded) : yielded[k] = ExpectedRow(it.start + k - 1)
        /\ (pc = "idle" /\ ret = Thrown(StopIteration)) =>
                Len(yielded) = it.stop - it.start

\* C11 witness: iter_rows(1) with stop omitted has returned the rows
\* 1 .. RowCount - 1 and then signalled exhaustion.
C11_Witness ==
    /\ it.phase = "live"
    /\ it.start = 1
    /\ it.stopArg = {}
    /\ Len(yielded) = RowCount - 1
    /\ yielded[1] = ExpectedRow(1)
    /\ pc = "idle"
    /\ ret = Thrown(StopIteration)

\* iter_rows was called with start > stop, stop > rowCount or start < 0
\* (stop is the row count when omitted).
BadBounds ==
    LET stop == IF it.stopArg = {} THEN RowCount ELSE CHOOSE n \in it.stopArg : TRUE
    IN  it.start > stop \/ stop > RowCount \/ it.start < 0

\* A request is being made, or was just made, for the iterator by the
\* wrapped operation name.
IterOp(name) == outer \in {"iter_rows", "next"} /\ op.name = name

\* C12: while iter_rows runs with such bounds the only operation it calls is
\* get_info, so no dataset/values and no dataset/cell-text request is sent,
\* and the call ends with no iterator and an exception, which is the
\* ValueError whenever the dataset-info call itself has not raised.
C12_RangeErrorFirst ==
    [][(it.phase = "info" /\ BadBounds) =>
          /\ it'.phase \in {"info", "none"}
          /\ it'.phase = "info" => (IterOp("get_info")' /\ UNCHANGED <<op, outer>>)
          /\ sent' = NoneSent
          /\ it'.phase = "none" =>
                /\ it' = NoIter
                /\ pc' = "idle"
                /\ outer' = "none"
                /\ ret' = IF raised.cls = "none" THEN Thrown(RangeError) ELSE Thrown(raised)]_vars

\* C12 witness: iter_rows(0, RowCount + 1) has raised the ValueError after a
\* dataset-info call, with no row-fetch request sent and no iterator.
C12_Witness ==
    /\ pc = "idle"
    /\ ret = Thrown(RangeError)
    /\ it = NoIter
    /\ op = Op("get_info", 0, 0)
    /\ \A k \in 1..Len(log) : log[k].ep \in {"dataset/info", AcquireUrl}
    /\ sent = NoneSent

\* C13 (as claimed): when iter_rows raises the ValueError, no request of
\* any kind was sent since iter_rows was called.
C13_NoNetworkCall ==
    (pc = "idle" /\ ret = Thrown(RangeError)) => log = <<>>

\* C13 (amended): when iter_rows raises the ValueError, the requests sent
\* since it was called are those of its one dataset-info call and nothing
\* else: a dataset/info request that was served, preceded, when the handle
\* was unknown, by one rejected dataset/info request and one acquire.
C13_OnlyInfoCall ==
    (pc = "idle" /\ ret = Thrown(RangeError)) =>
        /\ op = Op("get_info", 0, 0)
        /\ Len(log) \in {1, 3}
        /\ sent = NoneSent
        /\ log[Len(log)].ep = "dataset/info" /\ log[Len(log)].cls = "none"
        /\ Len(log) = 3 =>
              /\ log[1].ep = "dataset/info" /\ log[1].cls = WNF
              /\ log[2].ep = AcquireUrl /\ log[2].cls = "none"

\* C13 witness: iter_rows(-1) on a new DataSet has raised the ValueError
\* after a rejected dataset/info request, an acquire and a served
\* dataset/info request.
C13_Witness ==
    /\ pc = "idle"
    /\ ret = Thrown(RangeError)
    /\ Len(log) = 3
    /\ log[1].guid = EmptyGuid
    /\ log[2].ep = AcquireUrl
    /\ log[3].ep = "dataset/info"

\* The positions of the getTextAlways columns before position ci.
TextColumnsBefore(ci) == {j \in 1..(ci - 1) : columnsInfo[j].getTextAlways}

\* The cell-text requests a run in which none of them fails has sent when
\* the iterator is in this state: one per getTextAlways column of every row
\* returned, and those of the row in production.
TextRequestsDue ==
    (it.idx - it.start) * Cardinality(TextColumnsBefore(Len(columnsInfo) + 1))
    + IF outer = "next"
      THEN Cardinality(TextColumnsBefore(row.ci)) + (IF pc = "done" THEN 1 ELSE 0)
      ELSE 0

\* The dataset/values call of iter_rows has returned the block.
BlockFetched ==
    pc = "done" /\ outer = "iter_rows" /\ it.phase = "values" /\ raised.cls = "none"

\* C14 (as claimed): the block an iterator is made over was fetched with
\* exactly one dataset/values request.
C14_OneBulkRequest ==
    BlockFetched => Len(SelectSeq(log, LAMBDA e : e.ep = "dataset/values")) = 1

\* C14 (amended): iter_rows makes one dataset/values call, for stop rows;
\* it sends one request, or, when the first is rejected for an unknown
\* wrapper, that one, an acquire and the replayed one; no cell-text request
\* is sent during construction.  Once the iterator exists the only
\* operation called for it is _cell_text, so no dataset/values request is
\* sent for it any more.  As long as no cell-text request has failed, the
\* cell-text requests sent are exactly one per getTextAlways column of each
\* row returned plus those of the row in production, and each is for the
\* row at idx and a getTextAlways column.
C14_LazyExact ==
    /\ it.phase \in {"info", "values"} => sent = NoneSent
    /\ it.phase = "values" =>
          /\ IterOp("_values")
          /\ op = Op("_values", it.stop, 0)
    /\ BlockFetched =>
          /\ Len(log) \in {1, 3}
          /\ log[Len(log)].ep = "dataset/values"
          /\ Len(log) = 3 =>
                /\ log[1].ep = "dataset/values" /\ log[1].cls = WNF
                /\ log[2].ep = AcquireUrl
    /\ it.phase = "live" =>
          /\ Len(it.rows) = it.stop
          /\ outer \in {"iter_rows", "next"} => IterOp("_cell_text")
          /\ ~sent.textFail => sent.text = TextRequestsDue
          /\ outer = "next" =>
                /\ columnsInfo[row.ci].getTextAlways
                /\ op = Op("_cell_text", it.idx, columnsInfo[row.ci].id)

\* C14 witness: the iterator over [0, RowCount) has returned every row with
\* one cell-text request per row, none of which failed.
C14_Witness ==
    /\ it.phase = "live"
    /\ it.start = 0
    /\ it.idx = RowCount
    /\ Len(yielded) = RowCount
    /\ ~sent.textFail
    /\ sent.text = RowCount

\* C15: in every row the iterator has returned, the value under a
\* getTextAlways column is the cell-text result for that row and column and
\* differs from the value the bulk block holds for it, and the value under
\* any other column is the bulk block's entry for that row and column id;
\* every request __next__ makes is a cell-text request for a getTextAlways
\* column.
C15_ValueSource ==
    it.phase = "live" =>
        /\ \A k \in 1..Len(yielded) : \A j \in 1..Len(columnsInfo) :
              LET r == it.start + k - 1
                  col == columnsInfo[j].id
              IN  /\ col \in DOMAIN it.rows[r + 1]
                  /\ IF columnsInfo[j].getTextAlways
                     THEN /\ yielded[k][j] = CellText(r, col)
                          /\ yielded[k][j] # it.rows[r + 1][col]
                     ELSE yielded[k][j] = it.rows[r + 1][col]
        /\ outer = "next" =>
              /\ op.name = "_cell_text"
              /\ \E j \in 1..Len(columnsInfo) :
                    columnsInfo[j].id = op.col /\ columnsInfo[j].getTextAlways
              /\ \A j \in 1..Len(row.result) : ~columnsInfo[j].getTextAlways =>
                    row.result[j] = it.rows[it.idx + 1][columnsInfo[j].id]

\* C15 witness: a row has been returned whose getTextAlways column came from
\* a cell-text request and whose other column came from the bulk block.
C15_Witness ==
    /\ it.phase = "live"
    /\ pc = "idle"
    /\ ret = Returned("row")
    /\ Len(yielded) >= 1
    /\ yielded[Len(yielded)] = <<BulkValue(it.idx - 1, 0), CellText(it.idx - 1, 1)>>
    /\ op = Op("_cell_text", it.idx - 1, 1)

\* The dataset-info call of iter_rows is over.
InfoFetched == pc = "done" /\ outer = "iter_rows" /\ it.phase = "info"

\* C16: iter_rows calls get_info first and once: while that call runs it is
\* the only operation called for the iterator and no row-fetch request has
\* been sent; its requests are one dataset/info request, or two around an
\* acquire; afterwards get_info is never the operation called for the
\* iterator, neither for the bulk fetch nor while a row is produced.  The
\* bounds and the columns used are those of that info: an omitted stop is
\* its rowCount, stop is within it, the bulk fetch asks for stop rows, and
\* every row returned has one value per entry of its columnsInfo.
C16_InfoOnce ==
    /\ it.phase = "info" =>
          /\ IterOp("get_info")
          /\ sent = NoneSent
    /\ InfoFetched =>
          /\ Len(log) \in {1, 2, 3}
          /\ Len(SelectSeq(log, LAMBDA e : e.ep = "dataset/info")) = (Len(log) + 1) \div 2
          /\ raised.cls = "none" => log[Len(log)].ep = "dataset/info"
    /\ it.phase \in {"values", "live"} =>
          /\ outer \in {"iter_rows", "next"} => ~IterOp("get_info")
          /\ it.stopArg = {} => it.stop = Info.rowCount
          /\ it.stop <= Info.rowCount
          /\ Len(it.rows) \in {0, it.stop}
          /\ \A k \in 1..Len(yielded) : Len(yielded[k]) = Len(Info.columnsInfo)

\* C16 witness: an iterator with stop omitted, made on a handle that was
\* already acquired (its dataset-info call sent one request), has returned
\* all rows of the dataset.
C16_Witness ==
    /\ it.phase = "live"
    /\ it.stopArg = {}
    /\ it.start = 0
    /\ it.idx = it.stop
    /\ Len(yielded) = RowCount
    /\ sent.text >= RowCount
    /\ pc = "idle"
    /\ ret = Returned("row")

\* C17: the iterator starts at idx = start; afterwards idx only stays or
\* grows by one and never passes stop, and start, stop and the fetched block
\* never change.  Once idx = stop the iterator stays as it is whatever is
\* called: no row is returned, no request is sent for it, and what a call
\* on it gives the caller is StopIteration (from __next__) or the iterator
\* itself (from __iter__), which leaves the index alone at any time.
C17_ForwardOnly ==
    /\ [](it.phase = "live" => (it.start <= it.idx /\ it.idx <= it.stop))
    /\ [][/\ (it.phase = "values" /\ it'.phase = "live") => it'.idx = it'.start
          /\ (it.phase = "live" /\ it'.phase = "live") =>
                /\ it'.idx \in {it.idx, it.idx + 1}
                /\ it' = [it EXCEPT !.idx = it'.idx]
                /\ ret' = Returned("iterator") => it' = it
                /\ it.idx = it.stop =>
                      /\ it' = it
                      /\ yielded' = yielded
                      /\ sent' = sent
                      /\ outer' # "next"
                      /\ (pc = "idle" /\ pc' = "idle" /\ ret' # ret) =>
                            ret' \in {Thrown(StopIteration), Returned("iterator")}]_vars

\* C17 witness: the iterator has returned its last row, iter() was then
\* called on it, and its index is still stop.
C17_Witness ==
    /\ it.phase = "live"
    /\ it.idx = it.stop
    /\ it.start < it.stop
    /\ Len(yielded) = it.stop - it.start
    /\ pc = "idle"
    /\ ret = Returned("iterator")
    /\ op = Op("_cell_text", it.stop - 1, 1)

\* The node at position i of the cached list matches the argument: equal
\* name, and equal type when the argument gives one.
Matches(i, ref) ==
    /\ node_list[i].name = ref.name
    /\ ref.type # NoType => node_list[i].type = ref.type

\* Position i is the first one whose node matches the argument.
FirstMatch(i, ref) ==
    /\ i \in 1..Len(node_list)
    /\ Matches(i, ref)
    /\ \A j \in 1..(i - 1) : ~Matches(j, ref)

\* C18: what dataset and parameters resolve their argument to is the first
\* node of the cached list, in list order, with that name (and that type
\* when one is given), and they raise exactly when no node matches; every
\* node execute has resolved is the name and type of the first match of its
\* argument; in the list [{A,X},{A,Y}] the name "A" gives the first node and
\* {A,Y} the second.  No operation but wait_for_completion's refresh
\* changes the cached list.
C18_FirstMatch ==
    /\ [](/\ pop.name \in {"dataset", "parameters"} =>
                LET ref == pop.args[1]
                IN  /\ pret.kind \in {"node", "exc"}
                    /\ pret.kind = "node" => FirstMatch(pret.node, ref)
                    /\ pret.kind = "exc" => \A i \in 1..Len(node_list) : ~Matches(i, ref)
                    /\ (node_list = <<Node(1, "A", "X"), Node(2, "A", "Y")>>
                          /\ ref = Ref("A", NoType)) => pret.node = 1
                    /\ (node_list = <<Node(1, "A", "X"), Node(2, "A", "Y")>>
                          /\ ref = Ref("A", "Y")) => pret.node = 2
          /\ (pop.name = "execute" /\ ppc = "execute") =>
                /\ Len(pop.nodes) = Len(pop.args)
                /\ \A k \in 1..Len(pop.args) : \E i \in 1..Len(node_list) :
                      /\ FirstMatch(i, pop.args[k])
                      /\ pop.nodes[k] = Ref(node_list[i].name, node_list[i].type))
    /\ [][(ppc # "waiting" /\ ppc' # "waiting") => node_list' = node_list]_vars

\* C18 witness: with the cached list [{A,X},{A,Y}], dataset({A,Y}) has
\* resolved to the second node.
C18_Witness ==
    /\ node_list = <<Node(1, "A", "X"), Node(2, "A", "Y")>>
    /\ pop.name = "dataset"
    /\ pop.args = <<Ref("A", "Y")>>
    /\ pret = PResult("node", 0, 2, FALSE)

\* The arguments of the last operation that no node of the cached list
\* matches, by position.
Unresolved == {k \in 1..Len(pop.args) : \A i \in 1..Len(node_list) : ~Matches(i, pop.args[k])}

\* C19: when dataset, parameters or execute is called with an argument that
\* no node of the cached list matches, the operation has ended with the
\* node-not-found APIException (status 500) whose message holds the name and
\* type of the first such argument, and it has sent no request, the
\* project/execute request in particular; the message tells which name and
\* type were tried.  (pop.k = 0: the cached list is the one the operation
\* resolved against.)
C19_NotFoundFirst ==
    /\ \A r1, r2 \in Refs : NodeNotFound(r1) = NodeNotFound(r2) => r1 = r2
    /\ (pop.name \in {"dataset", "parameters", "execute"} /\ pop.k = 0
          /\ Unresolved # {}) =>
            LET k == CHOOSE k \in Unresolved : \A j \in Unresolved : k <= j
            IN  /\ ppc = "done"
                /\ pret.kind = "exc"
                /\ pret.exc.cls = "APIException"
                /\ pret.exc.status = 500
                /\ pret.exc = NodeNotFound(pop.args[k])
                /\ psent = {}
    /\ (pop.name \in {"dataset", "parameters", "execute"} /\ pop.k = 0
          /\ pret.kind = "exc" /\ psent = {}) => Unresolved # {}

\* C19 witness: execute was called with a node of the cached list and a
\* name that is not in it; it raised for the second argument and sent
\* nothing.
C19_Witness ==
    /\ pop.name = "execute"
    /\ Len(pop.args) = 2
    /\ Unresolved = {2}
    /\ ppc = "done"
    /\ pret = PThrown(NodeNotFound(pop.args[2]))
    /\ psent = {}

\* C20: execute polls only with wait=True and a wave id, and while it polls
\* it has returned nothing.  As long as the server reports the wave running,
\* another poll that keeps execute polling is always possible (the number
\* of polls has no limit), and the only way out of the loop is an exception
\* of the project/is-running request.  execute returns from the loop only
\* on a poll that found the wave not running, with that wave id, and once
\* the wave is not running execute does leave the loop.  With wait=False
\* execute sends the one project/execute request, never polls, and returns
\* the wave id the server named.
C20_WaitPolls ==
    /\ [](/\ ppc = "polling" =>
                /\ pop.name = "execute" /\ pop.wait /\ pop.wave # 0
                /\ pret = PPending
                /\ pop.wave \in running => ENABLED (IsRunning /\ ppc' = "polling")
          /\ (pop.name = "execute" /\ ppc = "done" /\ pret.kind = "wave") =>
                /\ pret.wave = pop.wave /\ pop.wave # 0
                /\ pop.wait =>
                      /\ pop.polls >= 1
                      /\ pop.wave \notin running
                      /\ psent = {"project/execute", "project/is-running"}
                /\ ~pop.wait => (pop.polls = 0 /\ psent = {"project/execute"})
          /\ (pop.name = "execute" /\ ~pop.wait) =>
                /\ ppc \in {"done", "execute"}
                /\ psent \subseteq {"project/execute"}
                /\ (ppc = "done" /\ pop.wave # 0) => pret = PResult("wave", pop.wave, 0, FALSE))
    /\ [][ppc = "polling" =>
            /\ (ppc' = "done" /\ pret'.kind # "exc") =>
                  (pop.wave \notin running /\ pret' = PResult("wave", pop.wave, 0, FALSE))
            /\ (pop.wave \in running /\ ppc' # "polling") =>
                  (ppc' = "done" /\ pret'.kind = "exc")
            /\ pop'.polls >= pop.polls]_vars
    /\ ((ppc = "polling" /\ pop.wave \notin running) ~> (ppc = "done"))

\* C20 witness: execute(wait=True) has polled a running wave, polled again
\* after the wave ended, and returned the wave id.
C20_Witness ==
    /\ pop.name = "execute"
    /\ pop.wait
    /\ ppc = "done"
    /\ pret = PResult("wave", pop.wave, 0, FALSE)
    /\ pop.wave \in 1..MaxWave
    /\ pop.polls = MaxPolls
    /\ "project/is-running" \in psent

\* The statistics end the wait for a node: an error message, or the status
\* 'synchronized' or 'incomplete'.
Final(stats) == stats.errMsg \/ stats.status \in {"synchronized", "incomplete"}

\* C21: wait_for_completion returns a flag only after a round that
\* refreshed the node list and read final statistics of the node, and the
\* flag is True exactly when the node has no error message and the status
\* 'synchronized' (an error message wins over 'synchronized'); after a round
\* that read any other status it is still waiting.  execute(wait=True)
\* whose request was answered without a wave id never polls the wave: it
\* waits for its nodes one by one in order, goes on to the next node only
\* after final statistics of the current one, and, every node waited for,
\* returns None.
C21_WaitForCompletion ==
    /\ [](/\ (pop.name = "wait_for_completion" /\ ppc = "done" /\ pret.kind # "exc") =>
                /\ pret.kind = "bool"
                /\ "project/nodes" \in psent
                /\ node_list = srvNodes
                /\ Final(pop.stats)
                /\ pret.flag = (~pop.stats.errMsg /\ pop.stats.status = "synchronized")
                /\ pop.stats = Stats("synchronized", TRUE) => ~pret.flag
          /\ (pop.name = "wait_for_completion" /\ ppc = "waiting" /\ pop.stats # NoStats) =>
                /\ ~Final(pop.stats)
                /\ pret = PPending
          /\ (pop.name = "execute" /\ pop.wait /\ pop.wave = 0
                /\ "project/execute" \in psent /\ pret.kind # "exc") =>
                /\ "project/is-running" \notin psent
                /\ pop.polls = 0
                /\ ppc \in {"waiting", "done"}
                /\ ppc = "waiting" => (pop.k \in 1..Len(pop.nodes) /\ pret = PPending)
                /\ ppc = "done" =>
                      /\ pret = PNone
                      /\ pop.nodes # <<>> =>
                            (pop.k = Len(pop.nodes) /\ Final(pop.stats)
                             /\ "project/nodes" \in psent))
    /\ [][(ppc = "waiting" /\ ppc' = "waiting") =>
            /\ pop'.k \in {pop.k, pop.k + 1}
            /\ pop'.k = pop.k + 1 => (pop.name = "execute" /\ Final(pop'.stats))
            /\ (pop'.k = pop.k /\ pop'.stats # pop.stats) => ~Final(pop'.stats)]_vars

\* C21 witness: wait_for_completion has returned False for a node that is
\* 'synchronized' and has an error message.
C21_Witness ==
    /\ pop.name = "wait_for_completion"
    /\ ppc = "done"
    /\ pop.stats = Stats("synchronized", TRUE)
    /\ pret = PResult("bool", 0, 0, FALSE)

\* C22: an acquire that succeeds replaces the stored handle, whatever it
\* was, with the wrapperGuid the server returned, and the operation is
\* attempted again with it; an acquire that fails leaves the stored handle
\* as it was, is the last request of the call, and its exception is what
\* the caller of the wrapped operation gets.
C22_AcquireOverwrites ==
    /\ [][pc = "acquire" =>
            /\ Len(log') = Len(log) + 1
            /\ log'[Len(log')].ep = AcquireUrl
            /\ raised'.cls = log'[Len(log')].cls
            /\ IF raised'.cls = "none"
               THEN /\ guid' = nextGuid
                    /\ guid' # guid
                    /\ guid' \in valid'
                    /\ pc' = "attempt2"
               ELSE /\ guid' = guid
                    /\ raised' = ApiRequest(resp', AcquireUrl)
                    /\ pc' = "done"]_vars
    /\ []((log # <<>> /\ Last.ep = AcquireUrl /\ Last.cls # "none") =>
            /\ Len(log) = 2
            /\ Cardinality(Attempts) = 1
            /\ guid = log[1].guid
            /\ pc \in {"done", "idle"}
            /\ raised = ApiRequest(resp, AcquireUrl)
            /\ raised.cls = Last.cls)
    /\ [][(pc = "done" /\ Last.ep = AcquireUrl) =>
            /\ pc' = "idle"
            /\ ret' = Thrown(raised)
            /\ guid' = guid
            /\ log' = log]_vars

\* C22 witness: a call whose acquire failed is over; the handle of an
\* earlier acquire, rejected in this call, is still the stored one and the
\* caller got the acquire's exception.
C22_Witness ==
    /\ pc = "idle"
    /\ Len(log) = 2
    /\ Last.ep = AcquireUrl
    /\ Last.cls # "none"
    /\ guid # EmptyGuid
    /\ guid \in rejected
    /\ ret = Thrown(raised)

\* C23: while a row is being produced every cell-text request is for the
\* row at the iterator's index; when such a request fails for good the
\* caller gets its exception and the iterator and the rows returned so far
\* are as they were, so the next call of __next__ starts the same row again
\* from its first column; the index changes only in the step that returns a
\* complete row, by exactly one, and the rows returned are always the rows
\* start, start + 1, ... in order, none skipped and none twice.
C23_FailureKeepsIndex ==
    /\ [](outer = "next" =>
            /\ it.phase = "live"
            /\ it.idx < it.stop
            /\ op.name = "_cell_text"
            /\ op.row = it.idx
            /\ Len(yielded) = it.idx - it.start)
    /\ [](it.phase = "live" =>
            /\ Len(yielded) = it.idx - it.start
            /\ \A k \in 1..Len(yielded) : yielded[k] = ExpectedRow(it.start + k - 1))
    /\ [][/\ (outer = "next" /\ pc = "done" /\ raised.cls # "none" /\ pc' # pc) =>
                /\ ret' = Thrown(raised)
                /\ it' = it
                /\ yielded' = yielded
                /\ pc' = "idle"
          /\ (it.phase = "live" /\ pc = "idle" /\ outer' = "next") =>
                /\ it' = it
                /\ op'.row = it.idx
                /\ LET run == RunColumns(it.rows, it.idx, 1, <<>>)
                   IN  row' = [ci |-> run.ci, result |-> run.result]
          /\ (it.phase = "live" /\ it'.phase = "live" /\ it'.idx # it.idx) =>
                /\ it'.idx = it.idx + 1
                /\ ret' = Returned("row")
                /\ yielded' = Append(yielded, ExpectedRow(it.idx))
                /\ pc' = "idle"
          /\ (it'.phase = "live" /\ yielded' # yielded) => it'.idx = it.idx + 1]_vars

\* C23 witness: the production of a row failed on a cell-text request, and
\* the iterator has since returned every row of [0, RowCount), the last of
\* them just now.
C23_Witness ==
    /\ it.phase = "live"
    /\ faulted
    /\ pc = "idle"
    /\ ret = Returned("row")
    /\ it.start = 0
    /\ it.idx = RowCount
    /\ Len(yielded) = RowCount
    /\ \A k \in 1..RowCount : yielded[k] = ExpectedRow(k - 1)

\* C24 as stated: each server invalidation episode causes exactly one
\* acquire call, that is, when an acquire call is about to be issued for a
\* stored handle the server once issued, no acquire call was issued for
\* that handle before.
C24_OneAcquireCall ==
    (frame.pc = "acquire" /\ guid # EmptyGuid) => ~acqFailed

\* C24: of two iterators of one DataSet each step changes only the one the
\* running call is for, and each returns the rows of its own range in
\* order; every request made for either carries the handle stored in the
\* DataSet at that moment, whichever iterator's call acquired it; the
\* handle is replaced only by a successful acquire, which is issued only
\* after a request carrying the stored handle was rejected, never while the
\* stored handle is valid, so the server holds at most one live wrapper
\* and each invalidation episode ends with one successful acquire.
C24_SharedHandle ==
    /\ [](\A i \in TwoIters :
            iters[i].phase = "live" =>
              /\ iters[i].start <= iters[i].idx /\ iters[i].idx <= iters[i].stop
              /\ iters[i].stopArg = {iters[i].stop}
              /\ Len(rowsOut[i]) = iters[i].idx - iters[i].start
              /\ \A k \in 1..Len(rowsOut[i]) :
                    rowsOut[i][k] = ExpectedRow(iters[i].start + k - 1))
    /\ [](valid \subseteq {guid})
    /\ [](frame.pc = "acquire" =>
            /\ guid \notin valid
            /\ lastReq = [who |-> frame.who, guid |-> guid, cls |-> WNF])
    /\ [][/\ \A i \in TwoIters :
                (iters'[i] # iters[i] \/ rowsOut'[i] # rowsOut[i]) =>
                  /\ i \in {frame.who, frame'.who}
                  /\ \A j \in TwoIters \ {i} :
                        iters'[j] = iters[j] /\ rowsOut'[j] = rowsOut[j]
          /\ lastReq' # lastReq =>
                /\ lastReq'.who = frame.who
                /\ lastReq'.guid = guid
                /\ lastReq'.cls = "none" => guid \in valid
          /\ guid' # guid =>
                /\ frame.pc = "acquire"
                /\ frame'.pc = "attempt2"
                /\ guid' = nextGuid
                /\ valid = {}
                /\ valid' = {guid'}
                /\ acquirer' = frame.who
          /\ (frame.pc = "attempt1" /\ guid \in valid) => frame'.pc # "acquire"
          /\ (frame.pc = "attempt2" /\ frame'.pc # "attempt2") =>
                /\ lastReq'.guid = guid
                /\ acquirer = frame.who
                /\ frame'.pc # "acquire"]_vars

\* C24 witness: the stored handle is a re-acquired one, acquired by a call
\* of iterator 1; the last request, made for iterator 2, carried it and was
\* served; both iterators began at the same row, have returned rows, and
\* stand at different indices.
C24_Witness ==
    /\ frame = NoFrame
    /\ acquirer = 1
    /\ guid > 1
    /\ lastReq = [who |-> 2, guid |-> guid, cls |-> "none"]
    /\ iters[1].phase = "live" /\ iters[2].phase = "live"
    /\ iters[1].start = iters[2].start
    /\ rowsOut[1] # <<>> /\ rowsOut[2] # <<>>
    /\ iters[1].idx # iters[2].idx

====
